---- MODULE Spec2Model ----
(***************************************************************************)
(* A model of music_fsl: the Backbone embedding network (backbone.py), the *)
(* FewShotLearner step and the train() driver (train.py), and the          *)
(* prototypical classification head the learner calls.                     *)
(*                                                                         *)
(* Tensors are modelled by their shapes (sequences of naturals); the       *)
(* classification head is also modelled on values, with embeddings in a    *)
(* miniature binary floating-point format.                                 *)
(***************************************************************************)
EXTENDS Integers, Sequences, FiniteSets, TLC

\* ------------------------------------------------------------------ bounds
MaxBatch == 4
MaxChannels == 2
MaxOptSteps == 2
MaxWay == 2
MaxShot == 2
MaxQuery == 1
MaxSupport == 3
MaxCoord == 6
MantBits == 3

\* ------------------------------------------------------- program constants
\* MelSpectrogram(n_mels=64, sample_rate=sample_rate)
NMels == 64
\* torchaudio's default n_fft, which the constructor call leaves unset;
\* win_length = n_fft and hop_length = win_length // 2 follow from it.
NFft == 400
HopLength == NFft \div 2
\* train()'s defaults
DefaultSampleRate == 16000
DefaultNWay == 5
DefaultNSupport == 5
DefaultNQuery == 20

\* The value a failed tensor operation yields, and the absent output.
None == <<-1>>

\* --------------------------------------------------------------- variables
VARIABLES
    sample_rate,   \* Backbone.sample_rate
    blocks,        \* the five ConvBlocks' construction arguments
    params,        \* version of the learned parameters (optimizer steps taken)
    pc,            \* position of the forward call in progress ("idle": none)
    input,         \* shape of the tensor forward was called with
    x,             \* shape of the local x of Backbone.forward / ConvBlock.forward
    blk,           \* index in ForwardOrder of the block being evaluated
    sub,           \* index in ConvBlockForward of the next layer of that block
    ops,           \* layers evaluated by the forward call, in order
    reads,         \* what those layers read besides the tensor handed to them
    out,           \* shape forward returned (None: nothing returned)
    err            \* exception forward raised ("none": none)

bbVars == <<sample_rate, blocks, params, pc, input, x, blk, sub, ops, reads, out, err>>

VARIABLES
    n_way,           \* train()'s arguments
    n_support,
    n_query,
    clip_samples,    \* samples per audio clip of the datasets
    train_batch,     \* the episode train_loader yielded last
    val_batch,       \* the episode val_loader yielded last
    entry,           \* the FewShotLearner entry point called last
    tag,             \* the tag that call handed to step
    step_batch,      \* the (support, query) pair it was called with
    protonet_calls,  \* evaluations of self.protonet in that call
    logits,          \* shape of the logits it computed
    loss_args,       \* what self.loss was evaluated on: logits, target rows
    metric_args,     \* what each metric was evaluated on
    output,          \* the mapping step returned: <<key, value shape>> pairs
    logged,          \* the self.log calls of that call: <<key, tag>> pairs
    step_err         \* exception the call raised ("none": none)

trVars == <<n_way, n_support, n_query, clip_samples, train_batch, val_batch,
            entry, tag, step_batch, protonet_calls, logits, loss_args,
            metric_args, output, logged, step_err>>

VARIABLES
    pn_pc,          \* position of the PrototypicalNet evaluation ("idle": none)
    pn_way,         \* classes of the episode being evaluated
    pn_support,     \* support examples per class
    class_support,  \* embeddings of the support examples of the class last averaged
    prototypes,     \* prototypes computed so far, one per class
    query_emb,      \* embedding of the query example last classified
    logit_row       \* its logits, one per class

pnVars == <<pn_pc, pn_way, pn_support, class_support, prototypes, query_emb, logit_row>>

vars == <<bbVars, trVars, pnVars>>

\* ------------------------------------------------------- Backbone.__init__
ConvBlockArgs(in_channels, out_channels, kernel_size, stride, padding, num_groups, max_pool_size) ==
    [in_channels |-> in_channels, out_channels |-> out_channels,
     kernel_size |-> kernel_size, stride |-> stride, padding |-> padding,
     num_groups |-> num_groups, max_pool_size |-> max_pool_size]

BackboneInit ==
    [conv1 |-> ConvBlockArgs(1, 32, 3, 1, "same", 8, 2),
     conv2 |-> ConvBlockArgs(32, 64, 3, 1, "same", 16, 2),
     conv3 |-> ConvBlockArgs(64, 128, 3, 1, "same", 32, 2),
     conv4 |-> ConvBlockArgs(128, 256, 3, 1, "same", 64, 2),
     conv5 |-> ConvBlockArgs(256, 512, 1, 1, "same", 128, 4)]

\* The order in which Backbone.forward applies its blocks.
ForwardOrder == <<"conv1", "conv2", "conv3", "conv4", "conv5">>

ConvBlockForwardPoolFirst == <<"conv", "gn", "maxpool", "relu">>

\* The order in which ConvBlock.forward applies its layers.
ConvBlockForward == <<"conv", "gn", "relu", "maxpool">>

\* ------------------------------------------------------------ tensor shapes
Rank(s) == Len(s)

Front(s) == SubSeq(s, 1, Len(s) - 1)

\* MelSpectrogram: (..., time) -> (..., n_mels, 1 + time // hop_length); the
\* centred STFT reflect-pads by n_fft // 2, which must be less than time.
MelSpectrogramShape(s) ==
    IF Rank(s) = 0 THEN None
    ELSE IF s[Rank(s)] <= NFft \div 2 THEN None
    ELSE Front(s) \o <<NMels, 1 + s[Rank(s)] \div HopLength>>

\* nn.Conv2d on (N, C, H, W) or (C, H, W): C must be in_channels; with
\* padding 'same' (stride 1) the spatial size is kept.
Conv2dShape(c, s) ==
    IF Rank(s) \notin {3, 4} THEN None
    ELSE IF s[Rank(s) - 2] # c.in_channels THEN None
    ELSE IF c.padding = "same" /\ c.stride = 1
         THEN [s EXCEPT ![Rank(s) - 2] = c.out_channels]
         ELSE None

\* nn.GroupNorm(num_groups, out_channels) on (N, C, *): C must be num_channels.
GroupNormShape(c, s) ==
    IF Rank(s) < 2 THEN None
    ELSE IF s[2] # c.out_channels \/ c.out_channels % c.num_groups # 0 THEN None
    ELSE s

ReLUShape(s) == s

\* nn.MaxPool2d(k): kernel and stride k, no padding, floor mode; an output
\* dimension of 0 is an error.
MaxPool2dShape(c, s) ==
    IF Rank(s) \notin {3, 4} THEN None
    ELSE LET h == s[Rank(s) - 1] \div c.max_pool_size
             w == s[Rank(s)] \div c.max_pool_size
         IN  IF h = 0 \/ w = 0 THEN None
             ELSE [s EXCEPT ![Rank(s) - 1] = h, ![Rank(s)] = w]

LayerShape(layer, c, s) ==
    CASE layer = "conv" -> Conv2dShape(c, s)
      [] layer = "gn" -> GroupNormShape(c, s)
      [] layer = "relu" -> ReLUShape(s)
      [] layer = "maxpool" -> MaxPool2dShape(c, s)

\* x.mean(dim=-1)
MeanLastDim(s) == IF Rank(s) = 0 THEN None ELSE Front(s)

\* A squeeze of every axis of size 1 (what x.squeeze() with no dim does).
SqueezeAll(s) == SelectSeq(s, LAMBDA d : d # 1)

\* x.squeeze(-1): drops the last axis when its size is 1.
SqueezeLast(s) == IF Rank(s) > 0 /\ s[Rank(s)] = 1 THEN Front(s) ELSE s

\* ConvBlock.forward as a function of the shape: its layers in order, the
\* first failure ending the evaluation.
RECURSIVE ApplyLayers(_, _, _)
ApplyLayers(layers, c, s) ==
    IF layers = <<>> \/ s = None THEN s
    ELSE ApplyLayers(Tail(layers), c, LayerShape(Head(layers), c, s))

ConvBlockShape(c, s) == ApplyLayers(ConvBlockForward, c, s)

RECURSIVE ApplyBlocks(_, _, _)
ApplyBlocks(names, cfg, s) ==
    IF names = <<>> \/ s = None THEN s
    ELSE ApplyBlocks(Tail(names), cfg, ConvBlockShape(cfg[Head(names)], s))

\* What a layer reads besides the tensor handed to it: its learned
\* parameters, or buffers fixed at construction.
LayerReadsRunningStats(layer) ==
    CASE layer = "melspec" -> {"config"}
      [] layer = "conv" -> {"params"}
      [] layer = "gn" -> {"params", "running_stats"}
      [] OTHER -> {}

LayerReads(layer) ==
    CASE layer = "melspec" -> {"config"}
      [] layer \in {"conv", "gn"} -> {"params"}
      [] OTHER -> {}

\* The learned parameters after a layer's forward evaluation.
ParamsAfterRunningStats(layer, p) == IF layer = "gn" THEN (p + 1) % (MaxOptSteps + 1) ELSE p

ParamsAfter(layer, p) == p

\* ------------------------------------------------------------------ inputs
SampleRates == {16000, 22050}

\* 12600 samples give 64 frames, the fewest the five poolings leave one of.
SampleCounts == {HopLength, 12599, 12600, 16000, 25400}

InputShapes ==
    {<<b, c, s>> : b \in 1..MaxBatch, c \in 0..MaxChannels, s \in SampleCounts}
    \cup {<<>>}
    \cup {<<s>> : s \in SampleCounts}
    \cup {<<b, s>> : b \in 1..MaxBatch, s \in SampleCounts}
    \cup {<<b, 1, c, s>> : b \in 1..MaxBatch, c \in 1..MaxChannels, s \in SampleCounts}

\* -------------------------------------------------------- Backbone.forward
Call ==
    /\ pc = "idle"
    /\ pc' = "assert_rank"
    /\ \E shape \in InputShapes : input' = shape /\ x' = shape
    /\ blk' = 0
    /\ sub' = 0
    /\ ops' = <<>>
    /\ reads' = {}
    /\ out' = None
    /\ err' = "none"
    /\ UNCHANGED <<sample_rate, blocks, params>>

\* assert x.ndim == 3
AssertRankHolds(s) == Rank(s) = 3

AssertRank ==
    /\ pc = "assert_rank"
    /\ IF AssertRankHolds(x)
       THEN pc' = "assert_mono" /\ err' = err
       ELSE pc' = "raised" /\ err' = "AssertionError"
    /\ UNCHANGED <<sample_rate, blocks, params, input, x, blk, sub, ops, reads, out>>

AssertMonoSkipped(s) == TRUE

\* assert x.shape[1] == 1
AssertMonoHolds(s) == s[2] = 1

AssertMono ==
    /\ pc = "assert_mono"
    /\ IF AssertMonoHolds(x)
       THEN pc' = "melspec" /\ err' = err
       ELSE pc' = "raised" /\ err' = "AssertionError"
    /\ UNCHANGED <<sample_rate, blocks, params, input, x, blk, sub, ops, reads, out>>

\* x = self.melspec(x)
MelSpec ==
    /\ pc = "melspec"
    /\ ops' = Append(ops, <<"melspec", "melspec">>)
    /\ reads' = reads \cup LayerReads("melspec")
    /\ params' = ParamsAfter("melspec", params)
    /\ LET y == MelSpectrogramShape(x)
       IN  IF y = None
           THEN pc' = "raised" /\ err' = "RuntimeError" /\ UNCHANGED <<x, blk, sub>>
           ELSE pc' = "block" /\ x' = y /\ blk' = 1 /\ sub' = 1 /\ err' = err
    /\ UNCHANGED <<sample_rate, blocks, input, out>>

\* One layer of ConvBlock.forward, in the block Backbone.forward has reached.
Layer(layer) ==
    /\ pc = "block"
    /\ ConvBlockForward[sub] = layer
    /\ ops' = Append(ops, <<ForwardOrder[blk], layer>>)
    /\ reads' = reads \cup LayerReads(layer)
    /\ params' = ParamsAfter(layer, params)
    /\ LET y == LayerShape(layer, blocks[ForwardOrder[blk]], x)
       IN  IF y = None
           THEN pc' = "raised" /\ err' = "RuntimeError" /\ UNCHANGED <<x, blk, sub>>
           ELSE /\ x' = y
                /\ err' = err
                /\ IF sub < Len(ConvBlockForward)
                   THEN pc' = pc /\ blk' = blk /\ sub' = sub + 1
                   ELSE IF blk < Len(ForwardOrder)
                        THEN pc' = pc /\ blk' = blk + 1 /\ sub' = 1
                        ELSE pc' = "mean" /\ blk' = blk /\ sub' = sub
    /\ UNCHANGED <<sample_rate, blocks, input, out>>

Conv == Layer("conv")

GroupNorm == Layer("gn")

ReLU == Layer("relu")

MaxPool == Layer("maxpool")

\* x = x.mean(dim=-1)
Mean ==
    /\ pc = "mean"
    /\ ops' = Append(ops, <<"forward", "mean">>)
    /\ x' = MeanLastDim(x)
    /\ pc' = "squeeze1"
    /\ UNCHANGED <<sample_rate, blocks, params, input, blk, sub, reads, out, err>>

\* x = x.squeeze(-1).squeeze(-1)
Squeeze ==
    /\ pc \in {"squeeze1", "squeeze2"}
    /\ ops' = Append(ops, <<"forward", "squeeze">>)
    /\ x' = SqueezeLast(x)
    /\ pc' = IF pc = "squeeze1" THEN "squeeze2" ELSE "return"
    /\ UNCHANGED <<sample_rate, blocks, params, input, blk, sub, reads, out, err>>

\* return x
Return ==
    /\ pc = "return"
    /\ out' = x
    /\ pc' = "idle"
    /\ UNCHANGED <<sample_rate, blocks, params, input, x, blk, sub, ops, reads, err>>

\* The exception leaves forward: nothing is returned and nothing is retried.
Raise ==
    /\ pc = "raised"
    /\ pc' = "idle"
    /\ UNCHANGED <<sample_rate, blocks, params, input, x, blk, sub, ops, reads, out, err>>

\* The optimizer of configure_optimizers updates the parameters between
\* forward passes.
OptimizerStep ==
    /\ pc = "idle"
    /\ params < MaxOptSteps
    /\ params' = params + 1
    /\ UNCHANGED <<sample_rate, blocks, pc, input, x, blk, sub, ops, reads, out, err>>

\* ================================================================ train.py
TRAIN_INSTRUMENTS ==
    <<"French Horn", "Violin", "Flute", "Contrabass", "Trombone", "Cello",
      "Clarinet in Bb", "Oboe", "Accordion">>

TEST_INSTRUMENTS ==
    <<"Bassoon", "Viola", "Trumpet in C", "Bass Tuba", "Alto Saxophone">>

Elems(seq) == {seq[i] : i \in 1..Len(seq)}

\* train_data = TinySOL(instruments=TRAIN_INSTRUMENTS, ...)
TrainDataInstruments == TRAIN_INSTRUMENTS

ValDataInstrumentsTrain == TRAIN_INSTRUMENTS

\* val_data = TinySOL(instruments=TEST_INSTRUMENTS, ...)
ValDataInstruments == TEST_INSTRUMENTS

\* Backbone.forward as a function of the input shape (None: it raises).
BackboneShape(cfg, s) ==
    IF ~AssertRankHolds(s) THEN None
    ELSE IF ~AssertMonoHolds(s) THEN None
    ELSE LET m == MelSpectrogramShape(s)
             b == ApplyBlocks(ForwardOrder, cfg, m)
         IN  IF m = None \/ b = None THEN None
             ELSE SqueezeLast(SqueezeLast(MeanLastDim(b)))

\* An item of EpisodeDataset: n_way classes of the dataset, n_support
\* support and n_query query clips of each; target is the label vector,
\* modelled by its length.
Episode(loader, classes, w, s, q, samples) ==
    [loader |-> loader,
     classlist |-> classes,
     support |-> [audio |-> <<w * s, 1, samples>>, target |-> w * s],
     query |-> [audio |-> <<w * q, 1, samples>>, target |-> w * q]]

NoBatch == [loader |-> "none"]

\* The episodes an EpisodeDataset over the given instruments can yield.
Episodes(loader, instruments) ==
    {Episode(loader, classes, n_way, n_support, n_query, clip_samples) :
        classes \in {c \in SUBSET Elems(instruments) : Cardinality(c) = n_way}}

\* PrototypicalNet.forward on shapes: embeddings of both sets, one prototype
\* per class, a logit per query and class.
ProtoNetShape(cfg, support, query, n_classes) ==
    LET se == BackboneShape(cfg, support.audio)
        qe == BackboneShape(cfg, query.audio)
    IN  IF se = None \/ qe = None THEN None
        ELSE IF se[2] # qe[2] THEN None
        ELSE <<qe[1], n_classes>>

\* nn.CrossEntropyLoss on logits (N, C) and class indices (N): a scalar.
CrossEntropyShape(lg, target) ==
    IF Rank(lg) = 2 /\ lg[1] = target THEN <<>> ELSE None

\* torchmetrics' Accuracy on logits (N, C) and class indices (N): a scalar.
AccuracyShape(lg, target) ==
    IF Rank(lg) = 2 /\ lg[1] = target THEN <<>> ELSE None

\* self.metrics = nn.ModuleDict({'accuracy': Accuracy()})
Metrics == <<"accuracy">>

\* logits = self.protonet(support, query)
StepLogits(cfg, batch) ==
    ProtoNetShape(cfg, batch.support, batch.query, Cardinality(batch.classlist))

StepTargetSupport(batch) == batch.support.target

\* query["target"], which the loss and the metrics are evaluated against
StepTarget(batch) == batch.query.target

\* FewShotLearner.step
Step(batch, call_tag, entry_point) ==
    \E lg \in {StepLogits(blocks, batch)} :
    LET loss == IF lg = None THEN None ELSE CrossEntropyShape(lg, StepTarget(batch))
        acc == IF lg = None THEN None ELSE AccuracyShape(lg, StepTarget(batch))
        result == <<<<"loss", loss>>>> \o [i \in 1..Len(Metrics) |-> <<Metrics[i], acc>>]
    IN  /\ entry' = entry_point
        /\ tag' = call_tag
        /\ step_batch' = [support |-> batch.support, query |-> batch.query]
        /\ protonet_calls' = 1
        /\ logits' = lg
        /\ IF lg = None
           THEN /\ step_err' = "RuntimeError"
                /\ loss_args' = <<>>
                /\ metric_args' = <<>>
                /\ output' = <<>>
                /\ logged' = <<>>
           ELSE IF loss = None \/ acc = None
           THEN /\ step_err' = "ValueError"
                /\ loss_args' = <<lg, StepTarget(batch)>>
                /\ metric_args' = <<>>
                /\ output' = <<>>
                /\ logged' = <<>>
           ELSE /\ step_err' = "none"
                /\ loss_args' = <<lg, StepTarget(batch)>>
                /\ metric_args' = <<lg, StepTarget(batch)>>
                /\ output' = result
                /\ logged' = [i \in 1..Len(result) |-> <<result[i][1], call_tag>>]
        /\ UNCHANGED <<n_way, n_support, n_query, clip_samples>>

TrainingStepTag == "train"

ValidationStepTagTrain == "train"

ValidationStepTag == "val"

TestStepTag == "test"

\* trainer.fit hands training_step the batch train_loader yielded ...
TrainingStep ==
    /\ train_batch # NoBatch
    /\ Step(train_batch, TrainingStepTag, "training_step")
    /\ train_batch' = NoBatch
    /\ UNCHANGED val_batch

\* ... and validation_step the batch val_loader yielded.
ValidationStep ==
    /\ val_batch # NoBatch
    /\ Step(val_batch, ValidationStepTag, "validation_step")
    /\ val_batch' = NoBatch
    /\ UNCHANGED train_batch

\* test_step, on a batch of either loader.
TestStep ==
    \E batch \in {train_batch, val_batch} \ {NoBatch} :
        /\ Step(batch, TestStepTag, "test_step")
        /\ train_batch' = IF batch = train_batch THEN NoBatch ELSE train_batch
        /\ val_batch' = IF batch = val_batch THEN NoBatch ELSE val_batch

StepResultVars == <<entry, tag, step_batch, protonet_calls, logits, loss_args,
                    metric_args, output, logged, step_err>>

\* train_loader yields an episode of train_episodes.
TrainLoaderNext ==
    /\ train_batch = NoBatch
    /\ \E e \in Episodes("train", TrainDataInstruments) : train_batch' = e
    /\ UNCHANGED <<n_way, n_support, n_query, clip_samples, val_batch>>
    /\ UNCHANGED StepResultVars

\* val_loader yields an episode of val_episodes.
ValLoaderNext ==
    /\ val_batch = NoBatch
    /\ \E e \in Episodes("val", ValDataInstruments) : val_batch' = e
    /\ UNCHANGED <<n_way, n_support, n_query, clip_samples, train_batch>>
    /\ UNCHANGED StepResultVars

\* Clip lengths of the datasets: long enough for the Backbone.
ClipSamples == {12600, 16000}

\* The arguments train() is called with: its defaults, or small values.
TrainArgs ==
    {<<DefaultNWay, DefaultNSupport, DefaultNQuery>>}
    \cup ((1..MaxWay) \X (1..MaxShot) \X (1..MaxQuery))

TrainInit ==
    /\ \E a \in TrainArgs : n_way = a[1] /\ n_support = a[2] /\ n_query = a[3]
    /\ clip_samples \in ClipSamples
    /\ train_batch = NoBatch
    /\ val_batch = NoBatch
    /\ entry = "none"
    /\ tag = "none"
    /\ step_batch = <<>>
    /\ protonet_calls = 0
    /\ logits = None
    /\ loss_args = <<>>
    /\ metric_args = <<>>
    /\ output = <<>>
    /\ logged = <<>>
    /\ step_err = "none"

\* The Backbone as train() builds it, with no forward call of its own.
BackboneBuilt ==
    /\ sample_rate = DefaultSampleRate
    /\ blocks = BackboneInit
    /\ params = 0
    /\ pc = "idle"
    /\ input = <<>>
    /\ x = <<>>
    /\ blk = 0
    /\ sub = 0
    /\ ops = <<>>
    /\ reads = {}
    /\ out = None
    /\ err = "none"

TrainIdle ==
    /\ n_way = DefaultNWay
    /\ n_support = DefaultNSupport
    /\ n_query = DefaultNQuery
    /\ clip_samples = DefaultSampleRate
    /\ train_batch = NoBatch
    /\ val_batch = NoBatch
    /\ entry = "none"
    /\ tag = "none"
    /\ step_batch = <<>>
    /\ protonet_calls = 0
    /\ logits = None
    /\ loss_args = <<>>
    /\ metric_args = <<>>
    /\ output = <<>>
    /\ logged = <<>>
    /\ step_err = "none"

\* ============================================== PrototypicalNet on values
\* Embeddings are floating-point tensors. The model keeps one coordinate of
\* an embedding (the mean is taken per coordinate, the squared distance is a
\* sum over coordinates) in a binary floating-point format of MantBits
\* significant bits whose unit in the last place is never below 1, with
\* round-to-nearest-even; values are nonnegative, as the embeddings are
\* (a mean of max-pooled rectified activations).
RECURSIVE BitLen(_)
BitLen(v) == IF v = 0 THEN 0 ELSE 1 + BitLen(v \div 2)

\* The spacing of the format's values at v.
Ulp(v) == IF BitLen(v) <= MantBits THEN 1 ELSE 2 ^ (BitLen(v) - MantBits)

Representable(v) == v % Ulp(v) = 0

\* The format's value nearest num/den, ties to the even significand.
Round(num, den) ==
    LET fl == num \div den
        u == Ulp(fl)
        lo == fl - (fl % u)
        hi == lo + u
    IN  IF 2 * num < (lo + hi) * den THEN lo
        ELSE IF 2 * num > (lo + hi) * den THEN hi
        ELSE IF (lo \div u) % 2 = 0 THEN lo ELSE hi

FAdd(a, b) == Round(a + b, 1)

FDiv(a, n) == Round(a, n)

FMul(a, b) == Round(a * b, 1)

FAbsDiff(a, b) == Round(IF a >= b THEN a - b ELSE b - a, 1)

\* The sum of a sequence, accumulated from the left.
RECURSIVE FSumFrom(_, _)
FSumFrom(acc, seq) ==
    IF seq = <<>> THEN acc ELSE FSumFrom(FAdd(acc, Head(seq)), Tail(seq))

FSum(seq) == FSumFrom(0, seq)

PrototypeSum(embs) == FSum(embs)

\* A class's prototype: the mean of its support embeddings.
Prototype(embs) == FDiv(FSum(embs), Len(embs))

LogitDistance(q, proto) == FMul(FAbsDiff(q, proto), FAbsDiff(q, proto))

\* The logit of a query for a class: the negative squared Euclidean distance
\* of its embedding to the class's prototype.
Logit(q, proto) == 0 - FMul(FAbsDiff(q, proto), FAbsDiff(q, proto))

\* The embeddings the Backbone may produce.
Coords == {v \in 0..MaxCoord : Representable(v)}

\* PrototypicalNet.forward is called on an episode of pn_way classes with
\* pn_support support examples each.
ProtoCall ==
    /\ pn_pc = "idle"
    /\ pn_pc' = "prototypes"
    /\ \E w \in 1..MaxWay, s \in 1..MaxSupport : pn_way' = w /\ pn_support' = s
    /\ class_support' = <<>>
    /\ prototypes' = <<>>
    /\ query_emb' = 0
    /\ logit_row' = <<>>

\* One iteration of the loop over the classes: the embeddings of the class's
\* support examples are selected and averaged into its prototype.
ClassPrototype ==
    /\ pn_pc = "prototypes"
    /\ class_support = <<>>
    /\ \E embs \in [1..pn_support -> Coords] :
          /\ class_support' = embs
          /\ \E proto \in {Prototype(embs)} : prototypes' = Append(prototypes, proto)
    /\ UNCHANGED <<pn_pc, pn_way, pn_support, query_emb, logit_row>>

\* The loop moves on to the next class, or ends after the last one.
NextClass ==
    /\ pn_pc = "prototypes"
    /\ class_support # <<>>
    /\ class_support' = <<>>
    /\ pn_pc' = IF Len(prototypes) = pn_way THEN "logits" ELSE pn_pc
    /\ UNCHANGED <<pn_way, pn_support, prototypes, query_emb, logit_row>>

\* The row of logits of one query example.
QueryLogits ==
    /\ pn_pc = "logits"
    /\ \E q \in Coords :
          /\ query_emb' = q
          /\ \E row \in {[c \in 1..pn_way |-> Logit(q, prototypes[c])]} : logit_row' = row
    /\ UNCHANGED <<pn_pc, pn_way, pn_support, class_support, prototypes>>

\* The logits are returned.
ProtoReturn ==
    /\ pn_pc = "logits"
    /\ logit_row # <<>>
    /\ pn_pc' = "idle"
    /\ UNCHANGED <<pn_way, pn_support, class_support, prototypes, query_emb, logit_row>>

ProtoIdle ==
    /\ pn_pc = "idle"
    /\ pn_way = 0
    /\ pn_support = 0
    /\ class_support = <<>>
    /\ prototypes = <<>>
    /\ query_emb = 0
    /\ logit_row = <<>>

InitProto == BackboneBuilt /\ TrainIdle /\ ProtoIdle

NextProto ==
    \/ ProtoCall /\ UNCHANGED <<bbVars, trVars>>
    \/ ClassPrototype /\ UNCHANGED <<bbVars, trVars>>
    \/ NextClass /\ UNCHANGED <<bbVars, trVars>>
    \/ QueryLogits /\ UNCHANGED <<bbVars, trVars>>
    \/ ProtoReturn /\ UNCHANGED <<bbVars, trVars>>

\* The classification head under episodes of arbitrary embeddings.
SpecProto == InitProto /\ [][NextProto]_vars

Init ==
    /\ sample_rate \in SampleRates
    /\ blocks = BackboneInit
    /\ params = 0
    /\ pc = "idle"
    /\ input = <<>>
    /\ x = <<>>
    /\ blk = 0
    /\ sub = 0
    /\ ops = <<>>
    /\ reads = {}
    /\ out = None
    /\ err = "none"
    /\ TrainIdle
    /\ ProtoIdle

Next ==
    \/ Call /\ UNCHANGED <<trVars, pnVars>>
    \/ AssertRank /\ UNCHANGED <<trVars, pnVars>>
    \/ AssertMono /\ UNCHANGED <<trVars, pnVars>>
    \/ MelSpec /\ UNCHANGED <<trVars, pnVars>>
    \/ Conv /\ UNCHANGED <<trVars, pnVars>>
    \/ GroupNorm /\ UNCHANGED <<trVars, pnVars>>
    \/ ReLU /\ UNCHANGED <<trVars, pnVars>>
    \/ MaxPool /\ UNCHANGED <<trVars, pnVars>>
    \/ Mean /\ UNCHANGED <<trVars, pnVars>>
    \/ Squeeze /\ UNCHANGED <<trVars, pnVars>>
    \/ Return /\ UNCHANGED <<trVars, pnVars>>
    \/ Raise /\ UNCHANGED <<trVars, pnVars>>
    \/ OptimizerStep /\ UNCHANGED <<trVars, pnVars>>

\* The Backbone under forward calls and optimizer steps.
Spec == Init /\ [][Next]_vars

InitTrain == BackboneBuilt /\ TrainInit /\ ProtoIdle

NextTrain ==
    \/ TrainLoaderNext /\ UNCHANGED <<bbVars, pnVars>>
    \/ ValLoaderNext /\ UNCHANGED <<bbVars, pnVars>>
    \/ TrainingStep /\ UNCHANGED <<bbVars, pnVars>>
    \/ ValidationStep /\ UNCHANGED <<bbVars, pnVars>>
    \/ TestStep /\ UNCHANGED <<bbVars, pnVars>>

\* The learner under the batches its loaders yield.
SpecTrain == InitTrain /\ [][NextTrain]_vars

\* ---------------------------------------------------- claims about Backbone
IsPrefix(a, b) == Len(a) <= Len(b) /\ a = SubSeq(b, 1, Len(a))

\* A forward call has been made (Call clears out and err, and every call ends
\* by setting one of them).
Called == ~(pc = "idle" /\ out = None /\ err = "none")

Returned == pc = "idle" /\ out # None

\* A batch (B, 1, S) of mono audio with B >= 1.
ValidInput(s) == Rank(s) = 3 /\ s[1] >= 1 /\ s[2] = 1

\* The spectrogram of S samples keeps at least one time frame through the
\* poolings by 2, 2, 2, 2 and 4.
SurvivesPooling(s) ==
    /\ s[3] > NFft \div 2
    /\ ((((((1 + s[3] \div HopLength) \div 2) \div 2) \div 2) \div 2) \div 4) >= 1

\* C1: for every valid audio batch (B, 1, S), B >= 1, whose sample count
\* survives the pooling chain, forward raises nothing and returns a tensor of
\* shape exactly (B, 512).
C1_OutputShape ==
    (Called /\ ValidInput(input) /\ SurvivesPooling(input)) =>
        /\ err = "none"
        /\ pc # "raised"
        /\ (pc = "idle" => out = <<input[1], 512>>)

\* Backbone(sample_rate=16000) on shape (4, 1, 16000) has returned (4, 512).
C1_Witness ==
    /\ Returned
    /\ sample_rate = 16000
    /\ input = <<4, 1, 16000>>
    /\ out = <<4, 512>>

InvalidInput(s) == IF Rank(s) # 3 THEN TRUE ELSE s[2] # 1

\* C2: an input whose rank is not 3 or whose channel count is not 1 is
\* rejected with an assertion error as soon as the two checks have run: no
\* layer has been evaluated, nothing is returned, and the call is over.
C2_RejectsInvalid ==
    (Called /\ InvalidInput(input) /\ pc \notin {"assert_rank", "assert_mono"}) =>
        /\ pc \in {"raised", "idle"}
        /\ err = "AssertionError"
        /\ out = None
        /\ ops = <<>>
        /\ x = input

\* A batch with zero channels has been rejected.
C2_Witness ==
    /\ pc = "idle"
    /\ Rank(input) = 3
    /\ input[2] = 0
    /\ err = "AssertionError"
    /\ out = None

C4_ForwardKeepsState ==
    [][/\ sample_rate' = sample_rate
       /\ blocks' = blocks
       /\ (pc # "idle" \/ pc' # "idle") => params' = params]_vars

\* A forward call has ended in an input-validation error after the optimizer
\* has updated the parameters.
C4_Witness ==
    /\ pc = "idle"
    /\ err = "AssertionError"
    /\ params = MaxOptSteps

\* The pipeline of Backbone.forward, written out.
ExpectedPipeline ==
    << <<"melspec", "melspec">>,
       <<"conv1", "conv">>, <<"conv1", "gn">>, <<"conv1", "relu">>, <<"conv1", "maxpool">>,
       <<"conv2", "conv">>, <<"conv2", "gn">>, <<"conv2", "relu">>, <<"conv2", "maxpool">>,
       <<"conv3", "conv">>, <<"conv3", "gn">>, <<"conv3", "relu">>, <<"conv3", "maxpool">>,
       <<"conv4", "conv">>, <<"conv4", "gn">>, <<"conv4", "relu">>, <<"conv4", "maxpool">>,
       <<"conv5", "conv">>, <<"conv5", "gn">>, <<"conv5", "relu">>, <<"conv5", "maxpool">>,
       <<"forward", "mean">>, <<"forward", "squeeze">>, <<"forward", "squeeze">> >>

ExpectedChannels == <<1, 32, 64, 128, 256, 512>>

ExpectedMelBins == <<64, 32, 16, 8, 4, 1>>

ExpectedTimeDivisor == <<1, 2, 4, 8, 16, 64>>

\* C8: the layers are evaluated in the order melspec, then conv, gn, relu,
\* maxpool of conv1 to conv5; each block takes the channels the previous one
\* produced (1, 32, 64, 128, 256, 512); the convolution keeps the spatial
\* size and the pooling divides both spatial axes by 2 (by 4 in conv5), so
\* that after conv5 the 64-bin frequency axis has size 1.
C8_Pipeline ==
    /\ IsPrefix(ops, ExpectedPipeline)
    /\ \A i \in 1..5 :
          /\ blocks[ForwardOrder[i]].in_channels = ExpectedChannels[i]
          /\ blocks[ForwardOrder[i]].out_channels = ExpectedChannels[i + 1]
    /\ (pc = "block" /\ sub = 1) =>
          /\ Len(ops) = 1 + 4 * (blk - 1)
          /\ x = <<input[1], ExpectedChannels[blk], ExpectedMelBins[blk],
                   (1 + input[3] \div HopLength) \div ExpectedTimeDivisor[blk]>>
    /\ (pc = "block" /\ sub > 1) =>
          /\ Len(ops) = 1 + 4 * (blk - 1) + (sub - 1)
          /\ x = <<input[1], ExpectedChannels[blk + 1], ExpectedMelBins[blk],
                   (1 + input[3] \div HopLength) \div ExpectedTimeDivisor[blk]>>
    /\ pc = "mean" =>
          /\ Len(ops) = 21
          /\ x = <<input[1], 512, 1, (1 + input[3] \div HopLength) \div 64>>

\* All five blocks have been applied to a one-clip batch of 64 frames.
C8_Witness ==
    /\ pc = "mean"
    /\ input = <<1, 1, 12600>>
    /\ x = <<1, 512, 1, 1>>

\* ---------------------------------------------------- claims about train.py
StepCalled == entry # "none"

\* C7: an episode's support batch has n_way*n_support rows and its query
\* batch n_way*n_query rows; step computes logits of shape
\* (n_way*n_query, n_way) and evaluates the loss on them and on a target of
\* as many rows; with train()'s defaults the shapes are (25, 1, S),
\* (100, 1, S) and (100, 5).
C7_EpisodeShapes ==
    /\ \A b \in {train_batch, val_batch} \ {NoBatch} :
          /\ b.support.audio = <<n_way * n_support, 1, clip_samples>>
          /\ b.query.audio = <<n_way * n_query, 1, clip_samples>>
          /\ b.query.target = n_way * n_query
    /\ StepCalled =>
          /\ step_err = "none"
          /\ logits = <<n_way * n_query, n_way>>
          /\ loss_args[1] = logits
          /\ loss_args[2] = logits[1]
    /\ (StepCalled /\ n_way = 5 /\ n_support = 5 /\ n_query = 20) =>
          /\ step_batch.support.audio = <<25, 1, clip_samples>>
          /\ step_batch.query.audio = <<100, 1, clip_samples>>
          /\ logits = <<100, 5>>

\* A training step on a 5-way, 5-support, 20-query episode has computed
\* logits of shape (100, 5).
C7_Witness ==
    /\ entry = "training_step"
    /\ step_err = "none"
    /\ step_batch.support.audio[1] = 25
    /\ step_batch.query.audio[1] = 100
    /\ logits = <<100, 5>>

NoDuplicates(seq) == Cardinality(Elems(seq)) = Len(seq)

\* C9: TRAIN_INSTRUMENTS and TEST_INSTRUMENTS are disjoint and free of
\* duplicates, with 9 and 5 classes, no fewer than the default n_way; every
\* training episode takes its n_way classes from TRAIN_INSTRUMENTS and every
\* validation episode from TEST_INSTRUMENTS, so no training episode shares a
\* class with a validation episode.
C9_DisjointClasses ==
    /\ Elems(TRAIN_INSTRUMENTS) \cap Elems(TEST_INSTRUMENTS) = {}
    /\ NoDuplicates(TRAIN_INSTRUMENTS)
    /\ NoDuplicates(TEST_INSTRUMENTS)
    /\ Len(TRAIN_INSTRUMENTS) = 9
    /\ Len(TEST_INSTRUMENTS) = 5
    /\ DefaultNWay <= Len(TRAIN_INSTRUMENTS)
    /\ DefaultNWay <= Len(TEST_INSTRUMENTS)
    /\ train_batch # NoBatch =>
          /\ train_batch.classlist \subseteq Elems(TRAIN_INSTRUMENTS)
          /\ Cardinality(train_batch.classlist) = n_way
    /\ val_batch # NoBatch =>
          /\ val_batch.classlist \subseteq Elems(TEST_INSTRUMENTS)
          /\ Cardinality(val_batch.classlist) = n_way
    /\ (train_batch # NoBatch /\ val_batch # NoBatch) =>
          train_batch.classlist \cap val_batch.classlist = {}

\* With the default n_way, both loaders have yielded an episode.
C9_Witness ==
    /\ n_way = 5
    /\ train_batch # NoBatch
    /\ val_batch # NoBatch
    /\ Cardinality(train_batch.classlist) = 5
    /\ Cardinality(val_batch.classlist) = 5

Keys(mapping) == [i \in 1..Len(mapping) |-> mapping[i][1]]

\* C10: whichever of training_step, validation_step and test_step is called,
\* the call evaluates the protonet once on (support, query), evaluates the
\* loss and the accuracy on those logits and query["target"], logs exactly
\* loss/<tag> and accuracy/<tag> with the tag of the entry point (train, val,
\* test), and returns a mapping with exactly the keys loss and accuracy.
C10_StepEntryPoints ==
    StepCalled =>
        /\ entry \in {"training_step", "validation_step", "test_step"}
        /\ entry = "training_step" => tag = "train"
        /\ entry = "validation_step" => tag = "val"
        /\ entry = "test_step" => tag = "test"
        /\ protonet_calls = 1
        /\ step_err = "none"
        /\ loss_args = <<logits, step_batch.query.target>>
        /\ metric_args = <<logits, step_batch.query.target>>
        /\ logged = << <<"loss", tag>>, <<"accuracy", tag>> >>
        /\ Keys(output) = <<"loss", "accuracy">>

\* A validation step has logged loss/val and accuracy/val.
C10_Witness ==
    /\ entry = "validation_step"
    /\ logged = << <<"loss", "val">>, <<"accuracy", "val">> >>
    /\ Keys(output) = <<"loss", "accuracy">>

\* -------------------------------------------- claims about PrototypicalNet
AllSame(embs) == \A i \in 1..Len(embs) : embs[i] = embs[1]

\* A class has just been averaged.
ClassAveraged == class_support # <<>>

LastPrototype == prototypes[Len(prototypes)]

AbsDiff(a, b) == IF a >= b THEN a - b ELSE b - a

C6_IdenticalQueryMaxLogit ==
    logit_row # <<>> =>
        \A c \in 1..pn_way :
            query_emb = prototypes[c] =>
                /\ logit_row[c] = 0
                /\ \A d \in 1..pn_way : logit_row[d] <= logit_row[c]

\* A query identical to the first class's prototype has been classified
\* against two different prototypes.
C6_Witness ==
    /\ logit_row # <<>>
    /\ pn_way >= 2
    /\ query_emb = prototypes[1]
    /\ logit_row[1] = 0
    /\ logit_row[2] < 0

====
